---- MODULE Spec2Model ----
(***************************************************************************)
(* A model of libp2pkvs (src/src/main.rs): an interactive node of a        *)
(* Kademlia/mDNS key-value store.  `main` builds a swarm whose behaviour   *)
(* combines Kademlia (over a MemoryStore) and mDNS, then loops over two    *)
(* sources: lines of standard input, handled by `handle_input_line`, and   *)
(* swarm events, during whose polling the two `inject_event` handlers run. *)
(*                                                                         *)
(* Text is modelled as sequences of Unicode code points, keys and values   *)
(* as sequences of bytes, Option<T> as a sequence of length 0 or 1.        *)
(***************************************************************************)
EXTENDS Integers, Sequences, FiniteSets, TLC

\* ------------------------------------------------------------------ text

SPACE == 32

\* String literals of the source, as code points.
S_GET == <<71, 69, 84>>
S_PUT == <<80, 85, 84>>
S_GET_PROVIDERS == <<71, 69, 84, 95, 80, 82, 79, 86, 73, 68, 69, 82, 83>>
S_PUT_PROVIDER == <<80, 85, 84, 95, 80, 82, 79, 86, 73, 68, 69, 82>>
S_andrew == <<97, 110, 100, 114, 101, 119>>
S_55 == <<53, 53>>

None == <<>>
Some(x) == <<x>>

RECURSIVE Flatten(_)
Flatten(ss) == IF ss = <<>> THEN <<>> ELSE Head(ss) \o Flatten(Tail(ss))

\* char::to_ascii_uppercase
CharToAsciiUppercase(c) == IF c \in 97..122 THEN c - 32 ELSE c

\* str::to_ascii_uppercase
\* ToAsciiUppercase that leaves the text as typed.
ToAsciiUppercase_AsTyped(s) == s

ToAsciiUppercase(s) == [i \in 1..Len(s) |-> CharToAsciiUppercase(s[i])]

\* str::split(' '): the pieces between single space characters.  A line with
\* n spaces gives n + 1 pieces, empty ones included; the empty line gives
\* one empty piece.
RECURSIVE SplitFrom(_, _, _, _)
SplitFrom(s, i, cur, acc) ==
    IF i > Len(s) THEN Append(acc, cur)
    ELSE IF s[i] = SPACE THEN SplitFrom(s, i + 1, <<>>, Append(acc, cur))
    ELSE SplitFrom(s, i + 1, Append(cur, s[i]), acc)

\* Split that yields no piece for the empty text.
Split_NoPieceOfEmpty(s) == IF s = <<>> THEN <<>> ELSE SplitFrom(s, 1, <<>>, <<>>)

Split(s) == SplitFrom(s, 1, <<>>, <<>>)

\* The UTF-8 encoding of one char (str::as_bytes, and Key::new of a &str).
Utf8Char(c) ==
    IF c < 128 THEN <<c>>
    ELSE IF c < 2048 THEN <<192 + (c \div 64), 128 + (c % 64)>>
    ELSE IF c < 65536 THEN
        <<224 + (c \div 4096), 128 + ((c \div 64) % 64), 128 + (c % 64)>>
    ELSE <<240 + (c \div 262144), 128 + ((c \div 4096) % 64),
           128 + ((c \div 64) % 64), 128 + (c % 64)>>

AsBytes(s) == Flatten([i \in 1..Len(s) |-> Utf8Char(s[i])])

IsCont(b) == b \in 128..191

\* The length of the well-formed UTF-8 sequence that starts at bs[i], or 0.
Utf8SeqLen(bs, i) ==
    LET b == bs[i]
        n == Len(bs)
        c(k) == i + k <= n /\ IsCont(bs[i + k])
    IN  IF b < 128 THEN 1
        ELSE IF b \in 194..223 THEN (IF c(1) THEN 2 ELSE 0)
        ELSE IF b \in 224..239 THEN
            (IF /\ c(1) /\ c(2)
                /\ (b = 224 => bs[i + 1] >= 160)
                /\ (b = 237 => bs[i + 1] <= 159)
             THEN 3 ELSE 0)
        ELSE IF b \in 240..244 THEN
            (IF /\ c(1) /\ c(2) /\ c(3)
                /\ (b = 240 => bs[i + 1] >= 144)
                /\ (b = 244 => bs[i + 1] <= 143)
             THEN 4 ELSE 0)
        ELSE 0

Utf8Decode(bs, i, n) ==
    IF n = 1 THEN bs[i]
    ELSE IF n = 2 THEN (bs[i] - 192) * 64 + (bs[i + 1] - 128)
    ELSE IF n = 3 THEN
        (bs[i] - 224) * 4096 + (bs[i + 1] - 128) * 64 + (bs[i + 2] - 128)
    ELSE (bs[i] - 240) * 262144 + (bs[i + 1] - 128) * 4096
         + (bs[i + 2] - 128) * 64 + (bs[i + 3] - 128)

\* std::str::from_utf8: Some(text) for well-formed UTF-8, None otherwise.
RECURSIVE FromUtf8From(_, _, _)
FromUtf8From(bs, i, acc) ==
    IF i > Len(bs) THEN Some(acc)
    ELSE LET n == Utf8SeqLen(bs, i)
         IN  IF n = 0 THEN None
             ELSE FromUtf8From(bs, i + n, Append(acc, Utf8Decode(bs, i, n)))

FromUtf8(bs) == FromUtf8From(bs, 1, <<>>)

HexDigit(d) == IF d < 10 THEN 48 + d ELSE 87 + d

RECURSIVE Hex(_)
Hex(n) == IF n < 16 THEN <<HexDigit(n)>> ELSE Hex(n \div 16) \o <<HexDigit(n % 16)>>

\* char::escape_debug as `{:?}` of a str applies it: the escapes of tab, CR,
\* LF, NUL, backslash and double quote, \u{..} for the other control
\* characters, the char itself otherwise.
EscapeDebug(c) ==
    IF c = 0 THEN <<92, 48>>
    ELSE IF c = 9 THEN <<92, 116>>
    ELSE IF c = 10 THEN <<92, 110>>
    ELSE IF c = 13 THEN <<92, 114>>
    ELSE IF c = 34 THEN <<92, 34>>
    ELSE IF c = 92 THEN <<92, 92>>
    ELSE IF c < 32 \/ c \in 127..159 THEN <<92, 117, 123>> \o Hex(c) \o <<125>>
    ELSE <<c>>

\* `{:?}` of a str: the escaped text between double quotes.
DebugStr(s) == <<34>> \o Flatten([i \in 1..Len(s) |-> EscapeDebug(s[i])]) \o <<34>>

\* ----------------------------------------------------- output and calls

\* One line written by println! (fd "stdout") or eprintln! (fd "stderr"):
\* the format string and its arguments, already formatted.
Line(fd, fmt, args) == [fd |-> fd, fmt |-> fmt, args |-> args]

\* One request made of the Kademlia behaviour.
Call(fn, args) == [fn |-> fn, args |-> args]

\* What the runtime writes when the main thread panics.
PanicLine(msg) == Line("stderr", "thread 'main' panicked at '{}'", <<msg>>)

\* ------------------------------------------------------------ the store

\* MemoryStoreConfig::default(), the configuration MemoryStore::new uses.
MaxStoreRecords == 1024
MaxValueBytes == 66560
MaxProvidedKeys == 1024

QuorumOne == 1

Record(key, value, publisher, expires) ==
    [key |-> key, value |-> value, publisher |-> publisher, expires |-> expires]

\* Record::new(key, value)
RecordNew(key, value) == Record(key, value, None, None)

\* MemoryStore::new(local_id).  `records` maps a key to its record;
\* `remote` counts the records held for remote peers under other keys.
MemoryStoreNew(local_id) ==
    [local_key |-> local_id, records |-> <<>>, provided |-> {}, remote |-> 0]

NumRecords(store) == Cardinality(DOMAIN store.records) + store.remote

\* RecordStore::put of MemoryStore.
StorePut(store, r) ==
    IF Len(r.value) >= MaxValueBytes
    THEN [res |-> "ValueTooLarge", store |-> store]
    ELSE IF r.key \in DOMAIN store.records
    THEN [res |-> "Ok",
          store |-> [store EXCEPT !.records = [@ EXCEPT ![r.key] = r]]]
    ELSE IF NumRecords(store) >= MaxStoreRecords
    THEN [res |-> "MaxRecords", store |-> store]
    ELSE [res |-> "Ok", store |-> [store EXCEPT !.records = (r.key :> r) @@ @]]

\* RecordStore::get of MemoryStore.
StoreGet(store, key) ==
    IF key \in DOMAIN store.records THEN Some(store.records[key]) ELSE None

\* RecordStore::add_provider of MemoryStore, for the local peer.
StoreAddProvider(store, key) ==
    IF key \in store.provided THEN [res |-> "Ok", store |-> store]
    ELSE IF Cardinality(store.provided) >= MaxProvidedKeys
    THEN [res |-> "MaxProvidedKeys", store |-> store]
    ELSE [res |-> "Ok", store |-> [store EXCEPT !.provided = @ \cup {key}]]

\* ------------------------------------------------------------- Kademlia

\* Kademlia::new(local_peer_id, store): the behaviour owns the store and the
\* queries in progress.  Its routing table is not modelled: the program
\* never reads it, and the requests that feed it are recorded as calls.
KademliaNew(id, store) ==
    [local |-> id, store |-> store, queries |-> {}, next_id |-> 1]

Query(id, kind, key, value, found) ==
    [id |-> id, kind |-> kind, key |-> key, value |-> value, found |-> found]

AddQuery(kad, kind, key, value, found) ==
    [kad EXCEPT !.queries = @ \cup {Query(kad.next_id, kind, key, value, found)},
                !.next_id = @ + 1]

\* kademlia.get_record(key, Quorum::One): the query starts with the record the
\* local store holds for the key, if any.
KadGetRecord(kad, key, quorum) ==
    LET local == StoreGet(kad.store, key)
        found == IF local = None THEN <<>>
                 ELSE <<[peer |-> None, record |-> local[1]]>>
    IN  AddQuery(kad, "GetRecord", key, <<>>, found)

\* kademlia.get_providers(key)
KadGetProviders(kad, key) == AddQuery(kad, "GetProviders", key, <<>>, <<>>)

\* kademlia.put_record(record, Quorum::One): the record is stored locally,
\* with the local peer as its publisher, before the query starts; a store
\* that rejects it is the Err returned.
KadPutRecord(kad, record, quorum) ==
    LET put == StorePut(kad.store, [record EXCEPT !.publisher = Some(kad.local)])
    IN  IF put.res # "Ok" THEN [res |-> put.res, kad |-> kad]
        ELSE [res |-> "Ok",
              kad |-> AddQuery([kad EXCEPT !.store = put.store],
                               "PutRecord", record.key, record.value, <<>>)]

\* kademlia.start_providing(key)
KadStartProviding(kad, key) ==
    LET add == StoreAddProvider(kad.store, key)
    IN  IF add.res # "Ok" THEN [res |-> add.res, kad |-> kad]
        ELSE [res |-> "Ok",
              kad |-> AddQuery([kad EXCEPT !.store = add.store],
                               "StartProviding", key, <<>>, <<>>)]

\* ------------------------------------------------- the operator's lines

\* The tokens the operator's lines are made of: a key and two values (the
\* second holds a char that is not ASCII and a double quote).
T_k == <<107>>
T_v == <<118>>
T_w == <<233, 34>>

ToAsciiLower(s) == [i \in 1..Len(s) |-> IF s[i] \in 65..90 THEN s[i] + 32 ELSE s[i]]

Kinds == {"GET", "GET_PROVIDERS", "PUT", "PUT_PROVIDER"}

VerbOf(kind) ==
    IF kind = "GET" THEN S_GET
    ELSE IF kind = "GET_PROVIDERS" THEN S_GET_PROVIDERS
    ELSE IF kind = "PUT" THEN S_PUT
    ELSE S_PUT_PROVIDER

\* The ways the operator spells a verb.
Spellings(kind) == {VerbOf(kind), ToAsciiLower(VerbOf(kind))}

\* First tokens that are no verb: the empty one (an empty line, or a line
\* that starts with a space), FOO, and GET<tab>k.
OtherVerbs == {<<>>, <<70, 79, 79>>, <<71, 69, 84, 9, 107>>}

\* The tokens after the verb; an empty token stands for two spaces in a
\* row, or for a space that ends the line.
ArgLists(kind) ==
    IF kind = "PUT"
    THEN {<<>>, <<T_k>>, <<T_k, T_v>>, <<T_k, T_w>>, <<T_k, T_v, T_w>>, <<T_k, <<>>>>}
    ELSE IF kind = "GET" THEN {<<>>, <<T_k>>, <<T_k, T_v>>, <<<<>>, T_k>>}
    ELSE IF kind = "" THEN {<<>>, <<T_k, T_v>>}
    ELSE {<<>>, <<T_k>>}

RECURSIVE JoinSpace(_)
JoinSpace(tokens) ==
    IF Len(tokens) = 1 THEN tokens[1]
    ELSE tokens[1] \o <<SPACE>> \o JoinSpace(Tail(tokens))

\* What the operator types: the verb meant ("" for none), its spelling, the
\* tokens after it, and the line of text they make with one space between
\* them.
Typed(kind, verb, args) ==
    [kind |-> kind, verb |-> verb, args |-> args, line |-> JoinSpace(<<verb>> \o args)]

TypedLines ==
    UNION {{Typed(kind, verb, args) : verb \in Spellings(kind), args \in ArgLists(kind)} :
           kind \in Kinds}
    \cup {Typed("", verb, args) : verb \in OtherVerbs, args \in ArgLists("")}

InputLines == {t.line : t \in TypedLines}

\* The pieces of the lines typed, computed once.
SplitOfInput == [l \in InputLines |-> Split(l)]

\* line.split(' '), collected.
SplitLine(line) == IF line \in InputLines THEN SplitOfInput[line] ELSE Split(line)

\* ---------------------------------------------------- handle_input_line

\* What handling one line comes to: Ok(()), Err(msg) or a panic with msg,
\* the behaviour as the handler leaves it, the lines it printed and the
\* requests it made.
Outcome(res, msg, kad, out, calls) ==
    [res |-> res, msg |-> msg, kad |-> kad, out |-> out, calls |-> calls]

\* Iterator::next on the pieces of the line, the i-th call.
ArgsNext(args, i) == IF i <= Len(args) THEN Some(args[i]) ELSE None

\* Key::new(&text): the key is the text's bytes.
KeyNew(text) == AsBytes(text)

\* ArmGet that makes no request while a query is in progress.
ArmGet_Waits(kad, args) ==
    LET k == ArgsNext(args, 2)
    IN  IF k = None THEN Outcome("Err", "Expected key", kad, <<>>, <<>>)
        ELSE IF kad.queries # {} THEN Outcome("Ok", "", kad, <<>>, <<>>)
        ELSE LET key == KeyNew(k[1])
             IN  Outcome("Ok", "", KadGetRecord(kad, key, QuorumOne), <<>>,
                         <<Call("get_record", <<key, QuorumOne>>)>>)

\* The "GET" arm.
ArmGet(kad, args) ==
    LET k == ArgsNext(args, 2)
    IN  IF k = None THEN Outcome("Err", "Expected key", kad, <<>>, <<>>)
        ELSE LET key == KeyNew(k[1])
             IN  Outcome("Ok", "", KadGetRecord(kad, key, QuorumOne), <<>>,
                         <<Call("get_record", <<key, QuorumOne>>)>>)

\* The "GET_PROVIDERS" arm.
ArmGetProviders(kad, args) ==
    LET k == ArgsNext(args, 2)
    IN  IF k = None THEN Outcome("Err", "Expected key", kad, <<>>, <<>>)
        ELSE LET key == KeyNew(k[1])
             IN  Outcome("Ok", "", KadGetProviders(kad, key), <<>>,
                         <<Call("get_providers", <<key>>)>>)

\* ArmPut that makes no request for a record the store already holds.
ArmPut_Dedup(kad, args) ==
    LET k == ArgsNext(args, 2)
        v == ArgsNext(args, 3)
    IN  IF k = None THEN Outcome("Err", "Expected key", kad, <<>>, <<>>)
        ELSE IF v = None THEN Outcome("Err", "Expected value", kad, <<>>, <<>>)
        ELSE LET record == Record(KeyNew(k[1]), AsBytes(v[1]), None, None)
                 held == StoreGet(kad.store, record.key)
                 put == KadPutRecord(kad, record, QuorumOne)
                 calls == <<Call("put_record", <<record, QuorumOne>>)>>
             IN  IF held # None /\ held[1].value = record.value
                 THEN Outcome("Ok", "", kad, <<>>, <<>>)
                 ELSE IF put.res = "Ok" THEN Outcome("Ok", "", put.kad, <<>>, calls)
                 ELSE Outcome("Panic", "Failed to store record locally.", put.kad,
                              <<PanicLine("Failed to store record locally.")>>, calls)

\* ArmPut that takes a token after the value for an error.
ArmPut_RejectExtra(kad, args) ==
    LET k == ArgsNext(args, 2)
        v == ArgsNext(args, 3)
    IN  IF k = None THEN Outcome("Err", "Expected key", kad, <<>>, <<>>)
        ELSE IF v = None THEN Outcome("Err", "Expected value", kad, <<>>, <<>>)
        ELSE IF ArgsNext(args, 4) # None
        THEN Outcome("Err", "Unexpected token", kad, <<>>, <<>>)
        ELSE LET record == Record(KeyNew(k[1]), AsBytes(v[1]), None, None)
                 put == KadPutRecord(kad, record, QuorumOne)
                 calls == <<Call("put_record", <<record, QuorumOne>>)>>
             IN  IF put.res = "Ok" THEN Outcome("Ok", "", put.kad, <<>>, calls)
                 ELSE Outcome("Panic", "Failed to store record locally.", put.kad,
                              <<PanicLine("Failed to store record locally.")>>, calls)

\* ArmPut with the value read where the key was.
ArmPut_KeyAsValue(kad, args) ==
    LET k == ArgsNext(args, 2)
        v == ArgsNext(args, 3)
    IN  IF k = None THEN Outcome("Err", "Expected key", kad, <<>>, <<>>)
        ELSE IF v = None THEN Outcome("Err", "Expected value", kad, <<>>, <<>>)
        ELSE LET record == Record(KeyNew(k[1]), AsBytes(k[1]), None, None)
                 put == KadPutRecord(kad, record, QuorumOne)
                 calls == <<Call("put_record", <<record, QuorumOne>>)>>
             IN  IF put.res = "Ok" THEN Outcome("Ok", "", put.kad, <<>>, calls)
                 ELSE Outcome("Panic", "Failed to store record locally.", put.kad,
                              <<PanicLine("Failed to store record locally.")>>, calls)

\* ArmPut with a missing value taken to be the empty one.
ArmPut_DefaultValue(kad, args) ==
    LET k == ArgsNext(args, 2)
        v == IF ArgsNext(args, 3) = None THEN Some(<<>>) ELSE ArgsNext(args, 3)
    IN  IF k = None THEN Outcome("Err", "Expected key", kad, <<>>, <<>>)
        ELSE LET record == Record(KeyNew(k[1]), AsBytes(v[1]), None, None)
                 put == KadPutRecord(kad, record, QuorumOne)
             IN  Outcome("Ok", "", put.kad, <<>>,
                         <<Call("put_record", <<record, QuorumOne>>)>>)

\* The "PUT" arm.
ArmPut(kad, args) ==
    LET k == ArgsNext(args, 2)
        v == ArgsNext(args, 3)
    IN  IF k = None THEN Outcome("Err", "Expected key", kad, <<>>, <<>>)
        ELSE IF v = None THEN Outcome("Err", "Expected value", kad, <<>>, <<>>)
        ELSE LET record == Record(KeyNew(k[1]), AsBytes(v[1]), None, None)
                 put == KadPutRecord(kad, record, QuorumOne)
                 calls == <<Call("put_record", <<record, QuorumOne>>)>>
             IN  IF put.res = "Ok" THEN Outcome("Ok", "", put.kad, <<>>, calls)
                 ELSE Outcome("Panic", "Failed to store record locally.", put.kad,
                              <<PanicLine("Failed to store record locally.")>>, calls)

\* The "PUT_PROVIDER" arm.
ArmPutProvider(kad, args) ==
    LET k == ArgsNext(args, 2)
    IN  IF k = None THEN Outcome("Err", "Expected key", kad, <<>>, <<>>)
        ELSE LET key == KeyNew(k[1])
                 sp == KadStartProviding(kad, key)
                 calls == <<Call("start_providing", <<key>>)>>
             IN  IF sp.res = "Ok" THEN Outcome("Ok", "", sp.kad, <<>>, calls)
                 ELSE Outcome("Panic", "Failed to start providing key", sp.kad,
                              <<PanicLine("Failed to start providing key")>>, calls)

\* ArmOther without its eprintln!.
ArmOther_Silent(kad, args) == Outcome("Ok", "", kad, <<>>, <<>>)

\* The `_` arm.
ArmOther(kad, args) ==
    Outcome("Ok", "", kad,
            <<Line("stderr", "expected GET, GET_PROVIDERS, PUT or PUT_PROVIDER", <<>>)>>,
            <<>>)

\* fn handle_input_line(kademlia, line)
handle_input_line(kademlia, line) ==
    LET args == SplitLine(line)
        first == ArgsNext(args, 1)
    IN  IF first = None
        THEN Outcome("Err", "Could not parse input string", kademlia, <<>>, <<>>)
        ELSE LET verb == ToAsciiUppercase(first[1])
             IN  IF verb = S_GET THEN ArmGet(kademlia, args)
                 ELSE IF verb = S_GET_PROVIDERS THEN ArmGetProviders(kademlia, args)
                 ELSE IF verb = S_PUT THEN ArmPut(kademlia, args)
                 ELSE IF verb = S_PUT_PROVIDER THEN ArmPutProvider(kademlia, args)
                 ELSE ArmOther(kademlia, args)

\* ------------------------------------------------------- Kademlia events

\* QueryResult: the kind of query, Ok or Err, and the payload: the key of
\* the query, the providers found, the records found, the kind of error.
QueryResult(kind, ok, key, providers, records, err) ==
    [kind |-> kind, ok |-> ok, key |-> key, providers |-> providers,
     records |-> records, err |-> err]

NoResult == QueryResult("", TRUE, <<>>, <<>>, <<>>, "")

\* KademliaEvent: OutboundQueryCompleted { id, result }, InboundRequest
\* { request }, RoutingUpdated, UnroutablePeer, RoutablePeer or
\* PendingRoutablePeer.
KademliaEvent(type, id, result, request) ==
    [type |-> type, id |-> id, result |-> result, request |-> request]

PeerRecord(peer, record) == [peer |-> peer, record |-> record]

\* `{:?}` of a value whose text the model does not spell out.
Debug(v) == <<"Debug", v>>

\* `{:?}` of an Option.
DebugOption(o) == IF o = None THEN <<"None">> ELSE <<"Some", o[1]>>

UnwrapPanic == "called Result::unwrap() on an Err value: Utf8Error"

\* What a handler did: the lines it printed, and whether it panicked.
Rendered(out, panic) == [out |-> out, panic |-> panic]

\* The loop over ok.providers of the GetProviders(Ok(ok)) arm.
RECURSIVE RenderProviders(_, _, _)
RenderProviders(key, providers, out) ==
    IF providers = <<>> THEN Rendered(out, FALSE)
    ELSE LET k == FromUtf8(key)
         IN  IF k = None THEN Rendered(Append(out, PanicLine(UnwrapPanic)), TRUE)
             ELSE RenderProviders(key, Tail(providers),
                      Append(out, Line("stdout", "Peer {:?} provides key {:?}",
                                       <<Debug(Head(providers)), DebugStr(k[1])>>)))

\* The loop over ok.records of the GetRecord(Ok(ok)) arm.
RECURSIVE RenderRecords(_, _)
RenderRecords(records, out) ==
    IF records = <<>> THEN Rendered(out, FALSE)
    ELSE LET k == FromUtf8(Head(records).record.key)
             v == FromUtf8(Head(records).record.value)
         IN  IF k = None \/ v = None
             THEN Rendered(Append(out, PanicLine(UnwrapPanic)), TRUE)
             ELSE RenderRecords(Tail(records),
                      Append(out, Line("stdout", "Got record {:?} {:?} from peer {:?}",
                                       <<DebugStr(k[1]), DebugStr(v[1]),
                                         DebugOption(Head(records).peer)>>)))

\* A println! of a key unwrapped from its bytes.
RenderKey(fmt, key) ==
    LET k == FromUtf8(key)
    IN  IF k = None THEN Rendered(<<PanicLine(UnwrapPanic)>>, TRUE)
        ELSE Rendered(<<Line("stdout", fmt, <<DebugStr(k[1])>>)>>, FALSE)

\* RenderErr that unwraps the error.
RenderErr_Unwrap(fmt, result) == Rendered(<<PanicLine(UnwrapPanic)>>, TRUE)

\* An eprintln! of an error.
RenderErr(fmt, result) ==
    Rendered(<<Line("stderr", fmt, <<Debug([err |-> result.err, key |-> result.key])>>)>>,
             FALSE)

\* The match on the result of an OutboundQueryCompleted event.
RenderQueryResult(result) ==
    IF result.kind = "GetProviders" /\ result.ok
    THEN RenderProviders(result.key, result.providers,
                         <<Line("stdout", "Get Providers OK", <<>>)>>)
    ELSE IF result.kind = "GetProviders"
    THEN RenderErr("Failed to get providers: {:?}", result)
    ELSE IF result.kind = "GetRecord" /\ result.ok
    THEN RenderRecords(result.records, <<>>)
    ELSE IF result.kind = "GetRecord"
    THEN RenderErr("Failed to get record: {:?}", result)
    ELSE IF result.kind = "PutRecord" /\ result.ok
    THEN RenderKey("Successfully put record {:?}", result.key)
    ELSE IF result.kind = "PutRecord"
    THEN RenderErr("Failed to put record: {:?}", result)
    ELSE IF result.kind = "StartProviding" /\ result.ok
    THEN RenderKey("Successfully put provider record {:?}", result.key)
    ELSE IF result.kind = "StartProviding"
    THEN RenderErr("Failed to put provider record: {:?}", result)
    ELSE Rendered(<<Line("stdout", "Other Event: {:?}", <<Debug(result)>>)>>, FALSE)

\* NetworkBehaviourEventProcess<KademliaEvent>::inject_event
InjectKademliaEvent(message) ==
    IF message.type = "OutboundQueryCompleted" THEN RenderQueryResult(message.result)
    ELSE IF message.type = "InboundRequest"
    THEN Rendered(<<Line("stdout", "Inbound Request: {:?}", <<Debug(message.request)>>)>>,
                  FALSE)
    ELSE IF message.type = "RoutingUpdated"
    THEN Rendered(<<Line("stdout", "Routing updated", <<>>)>>, FALSE)
    ELSE IF message.type = "UnroutablePeer"
    THEN Rendered(<<Line("stdout", "Unroutable peer", <<>>)>>, FALSE)
    ELSE IF message.type = "RoutablePeer"
    THEN Rendered(<<Line("stdout", "Routable peer", <<>>)>>, FALSE)
    ELSE Rendered(<<Line("stdout", "Pending routable peer", <<>>)>>, FALSE)

\* ----------------------------------------------------------- mDNS events

MdnsEvent(type, list) == [type |-> type, list |-> list]

\* The loop over the list of a Discovered event: a line and an add_address
\* for each (peer_id, multiaddr) of the list, in its order.
RECURSIVE AddDiscovered(_, _, _, _)
AddDiscovered(kad, list, out, calls) ==
    IF list = <<>> THEN [kad |-> kad, out |-> out, calls |-> calls]
    ELSE LET peer_id == Head(list)[1]
             multiaddr == Head(list)[2]
         IN  AddDiscovered(kad, Tail(list),
                 Append(out, Line("stdout", "New Peer '{}' at {} added to network",
                                  <<peer_id, multiaddr>>)),
                 Append(calls, Call("add_address", <<peer_id, multiaddr>>)))

\* InjectMdnsEvent that treats the list of an Expired event as it does that of
\* a Discovered one.
InjectMdnsEvent_AnyList(kad, event) == AddDiscovered(kad, event.list, <<>>, <<>>)

\* NetworkBehaviourEventProcess<MdnsEvent>::inject_event
InjectMdnsEvent(kad, event) ==
    IF event.type = "Discovered" THEN AddDiscovered(kad, event.list, <<>>, <<>>)
    ELSE [kad |-> kad, out |-> <<>>, calls |-> <<>>]

\* ------------------------------------------------------------ the inputs

\* The bounds of the model.
MaxQueries == 2
MaxDiscovered == 1

\* The bytes remote peers hold as values: text, and bytes that are no UTF-8.
RemoteValues == {<<118>>, <<255>>}

\* The ways the Overlay completes query q.  A lookup that found the record
\* in the local store succeeds with it; another succeeds with a record of a
\* remote peer, or fails.
Completions(q) ==
    IF q.kind = "GetRecord" THEN
        IF q.found # <<>>
        THEN {QueryResult("GetRecord", TRUE, q.key, <<>>, q.found, "")}
        ELSE {QueryResult("GetRecord", TRUE, q.key, <<>>,
                          <<PeerRecord(Some(p), Record(q.key, v, Some(p), None))>>, "") :
                  p \in {"P1"}, v \in RemoteValues}
             \cup {QueryResult("GetRecord", FALSE, q.key, <<>>, <<>>, e) :
                      e \in {"NotFound", "Timeout"}}
    ELSE IF q.kind = "PutRecord" THEN
        {QueryResult("PutRecord", TRUE, q.key, <<>>, <<>>, ""),
         QueryResult("PutRecord", FALSE, q.key, <<>>, <<>>, "QuorumFailed"),
         QueryResult("PutRecord", FALSE, q.key, <<>>, <<>>, "Timeout")}
    ELSE IF q.kind = "GetProviders" THEN
        {QueryResult("GetProviders", TRUE, q.key, ps, <<>>, "") :
            ps \in {<<>>, <<"P2", "P1">>}}
        \cup {QueryResult("GetProviders", FALSE, q.key, <<>>, <<>>, "Timeout")}
    ELSE
        {QueryResult("StartProviding", TRUE, q.key, <<>>, <<>>, ""),
         QueryResult("StartProviding", FALSE, q.key, <<>>, <<>>, "Timeout")}

\* The events Kademlia raises that answer no request of this program: the
\* results of its own queries, the requests of remote peers, the changes of
\* its routing table.
UnsolicitedEvents ==
    {KademliaEvent("OutboundQueryCompleted", 0,
                   QueryResult(k, ok, <<>>, <<>>, <<>>, IF ok THEN "" ELSE "Timeout"), "") :
        k \in {"Bootstrap"},
        ok \in BOOLEAN}
    \cup {KademliaEvent("InboundRequest", 0, NoResult, r) :
            r \in {"GetRecord", "PutRecord"}}
    \cup {KademliaEvent(t, 0, NoResult, "") :
            t \in {"RoutingUpdated", "UnroutablePeer", "RoutablePeer",
                   "PendingRoutablePeer"}}

Discoverable == {<<"P1", "A1">>, <<"P2", "A2">>}

SeqsUpTo(S, n) == UNION {[1..m -> S] : m \in 0..n}

MdnsEvents ==
    {MdnsEvent("Discovered", list) : list \in SeqsUpTo(Discoverable, MaxDiscovered)}
    \cup {MdnsEvent("Expired", list) : list \in SeqsUpTo(Discoverable, 1)}

SwarmEvents == {"NewListenAddr", "ConnectionEstablished"}

\* The arguments the process is started with.
Argvs == {<<>>, <<"client">>}

\* ------------------------------------------------------------- the state

VARIABLES
    argv,       \* the arguments of the process
    pc,         \* where main is: "transport", "store", "seed", "kademlia",
                \* "mdns", "listen", "loop" or "exit"
    exit,       \* how the process ended: "" (it runs), "error" (main returned
                \* an Err), "panic" or "interrupt"
    store,      \* the local `store` of main: None before MemoryStore::new and
                \* after it is moved into Kademlia::new
    kademlia,   \* swarm.behaviour().kademlia: None before Kademlia::new
    listening,  \* the swarm has reported a listen address
    last,       \* the latest step of main: its input, the lines it printed
                \* and the requests it made of Kademlia
    history,    \* of the PUT lines typed: which completed, and which GET
                \* lines were typed after that
    ready       \* what the two streams of the loop hold ready when the
                \* arrival of their items is told apart from their handling

vars == <<argv, pc, exit, store, kademlia, listening, last, history, ready>>

LocalPeerId == "QmLocal"

Step(op, typed, event, out, calls, expect) ==
    [op |-> op, typed |-> typed, event |-> event, out |-> out, calls |-> calls,
     expect |-> expect]

\* The state of the session the specification speaks of.
Phase ==
    IF pc = "exit" THEN "Terminated"
    ELSE IF pc # "loop" THEN "Starting"
    ELSE IF listening THEN "Running"
    ELSE "Listening"

NoHistory == [puts |-> <<>>, expect |-> <<>>]

\* Neither stream holds an item.
NothingReady == [line |-> None, event |-> None]

Without(f, x) == [y \in DOMAIN f \ {x} |-> f[y]]

Init ==
    /\ argv \in Argvs
    /\ pc = "transport"
    /\ exit = ""
    /\ store = None
    /\ kademlia = None
    /\ listening = FALSE
    /\ last = Step("keypair", None, None,
                   <<Line("stdout", "My Peer Id: {}", <<LocalPeerId>>)>>, <<>>, None)
    /\ history = NoHistory
    /\ ready = NothingReady

\* main returns the Err of a `?`: the runtime prints it and the process ends.
Fail(op, msg) ==
    /\ pc' = "exit"
    /\ exit' = "error"
    /\ last' = Step(op, None, None, <<Line("stderr", "Error: {:?}", <<Debug(msg)>>)>>,
                    <<>>, None)

\* development_transport(local_key).await?
Transport ==
    /\ pc = "transport"
    /\ \/ /\ pc' = "store"
          /\ last' = Step("transport", None, None, <<>>, <<>>, None)
          /\ exit' = exit
       \/ Fail("transport", "transport")
    /\ UNCHANGED <<ready, argv, store, kademlia, listening, history>>

\* let mut store = MemoryStore::new(local_peer_id);
NewStore ==
    /\ pc = "store"
    /\ store' = Some(MemoryStoreNew(LocalPeerId))
    /\ pc' = "seed"
    /\ last' = Step("store", None, None, <<>>, <<>>, None)
    /\ UNCHANGED <<ready, argv, exit, kademlia, listening, history>>

\* SeedStore that puts nothing.
SeedStore_Skipped(st) == st

\* let _ = store.put(Record::new(Key::new(&"andrew"), Vec::from("55")));
SeedStore(st) == StorePut(st, RecordNew(KeyNew(S_andrew), AsBytes(S_55))).store

Seed ==
    /\ pc = "seed"
    /\ store' = Some(SeedStore(store[1]))
    /\ pc' = "kademlia"
    /\ last' = Step("seed", None, None, <<>>, <<>>, None)
    /\ UNCHANGED <<ready, argv, exit, kademlia, listening, history>>

\* let kademlia = Kademlia::new(local_peer_id, store);
NewKademlia ==
    /\ pc = "kademlia"
    /\ kademlia' = Some(KademliaNew(LocalPeerId, store[1]))
    /\ store' = None
    /\ pc' = "mdns"
    /\ last' = Step("kademlia", None, None, <<>>, <<>>, None)
    /\ UNCHANGED <<ready, argv, exit, listening, history>>

\* let mdns = block_on(Mdns::new(MdnsConfig::default()))?; then the behaviour,
\* the swarm and the reader of stdin, none of which can fail.
NewMdns ==
    /\ pc = "mdns"
    /\ \/ /\ pc' = "listen"
          /\ last' = Step("mdns", None, None, <<>>, <<>>, None)
          /\ exit' = exit
       \/ Fail("mdns", "mdns")
    /\ UNCHANGED <<ready, argv, store, kademlia, listening, history>>

\* swarm.listen_on("/ip4/0.0.0.0/tcp/0".parse()?)?; then the loop is entered.
ListenOn ==
    /\ pc = "listen"
    /\ \/ /\ pc' = "loop"
          /\ last' = Step("listen_on", None, None, <<>>, <<>>, None)
          /\ exit' = exit
       \/ Fail("listen_on", "listen_on")
    /\ UNCHANGED <<ready, argv, store, kademlia, listening, history>>

\* --------------------------------------------------------------- the loop

\* A PUT line of a key and a value, and nothing else.
WellFormedPut(t) ==
    t.kind = "PUT" /\ Len(t.args) = 2 /\ t.args[1] # <<>> /\ t.args[2] # <<>>

\* A GET line of a key, and nothing else.
WellFormedGet(t) == t.kind = "GET" /\ Len(t.args) = 1 /\ t.args[1] # <<>>

\* The history after typed line t was handled with outcome o, the next query
\* being the one numbered id.  A PUT line is the latest PUT of its key; a GET
\* line typed when the latest PUT of its key is a well-formed one whose
\* success was reported expects that key and value.
HistoryAfterLine(h, t, o, id) ==
    IF o.res # "Ok" THEN h
    ELSE IF t.kind = "PUT" /\ Len(t.args) >= 2 THEN
        [h EXCEPT !.puts =
            IF WellFormedPut(t)
            THEN (t.args[1] :> [id |-> id, v |-> t.args[2], acked |-> FALSE])
                 @@ Without(h.puts, t.args[1])
            ELSE Without(h.puts, t.args[1])]
    ELSE IF /\ WellFormedGet(t)
            /\ t.args[1] \in DOMAIN h.puts
            /\ h.puts[t.args[1]].acked
    THEN [h EXCEPT !.expect = (id :> <<t.args[1], h.puts[t.args[1]].v>>) @@ @]
    ELSE h

\* The history after the completion of query q was rendered.
HistoryAfterCompletion(h, q, result, rend) ==
    [puts |-> IF q.kind = "PutRecord" /\ result.ok /\ ~rend.panic
              THEN [k \in DOMAIN h.puts |->
                        IF h.puts[k].id = q.id THEN [h.puts[k] EXCEPT !.acked = TRUE]
                        ELSE h.puts[k]]
              ELSE h.puts,
     expect |-> Without(h.expect, q.id)]

\* line = stdin.select_next_some() =>
\*     handle_input_line(&mut swarm.behaviour_mut().kademlia, line.expect(..))?
HandleLine(t) ==
    LET o == handle_input_line(kademlia[1], t.line)
    IN  /\ o.kad.next_id <= MaxQueries + 1
        /\ kademlia' = Some(o.kad)
        /\ history' = HistoryAfterLine(history, t, o, kademlia[1].next_id)
        /\ IF o.res = "Ok"
           THEN /\ last' = Step("line", Some(t), None, o.out, o.calls, None)
                /\ UNCHANGED <<pc, exit>>
           ELSE IF o.res = "Err"
           THEN /\ last' = Step("line", Some(t), None,
                                o.out \o <<Line("stderr", "Error: {:?}",
                                                <<Debug(o.msg)>>)>>,
                                o.calls, None)
                /\ pc' = "exit"
                /\ exit' = "error"
           ELSE /\ last' = Step("line", Some(t), None, o.out, o.calls, None)
                /\ pc' = "exit"
                /\ exit' = "panic"
        /\ UNCHANGED <<argv, store, listening>>

StdinLine ==
    /\ pc = "loop"
    /\ \E t \in TypedLines : HandleLine(t)
    /\ UNCHANGED ready

\* The line read is an Err (an I/O error, or bytes that are no UTF-8):
\* line.expect("Stdin not to close") panics.
StdinError ==
    /\ pc = "loop"
    /\ pc' = "exit"
    /\ exit' = "panic"
    /\ last' = Step("stdin_error", None, None, <<PanicLine("Stdin not to close")>>,
                    <<>>, None)
    /\ UNCHANGED <<ready, argv, store, kademlia, listening, history>>

\* After a handler of a Kademlia event: the loop goes on, unless it panicked.
AfterRendering(rend) ==
    IF rend.panic THEN pc' = "exit" /\ exit' = "panic" ELSE UNCHANGED <<pc, exit>>

\* The swarm is polled and Kademlia reports the completion of a query this
\* program started.
QueryCompleted ==
    /\ pc = "loop"
    /\ \E q \in kademlia[1].queries : \E result \in Completions(q) :
         LET ev == KademliaEvent("OutboundQueryCompleted", q.id, result, "")
             rend == InjectKademliaEvent(ev)
         IN  /\ kademlia' = Some([kademlia[1] EXCEPT !.queries = @ \ {q}])
             /\ last' = Step("kademlia_event", None, Some(ev), rend.out, <<>>,
                             IF q.id \in DOMAIN history.expect
                             THEN Some(history.expect[q.id]) ELSE None)
             /\ history' = HistoryAfterCompletion(history, q, result, rend)
             /\ AfterRendering(rend)
    /\ UNCHANGED <<ready, argv, store, listening>>

\* The records the store holds for remote peers after it served their
\* PutRecord requests, when these fill it.
RemoteFill(st) ==
    {n \in {MaxStoreRecords - Cardinality(DOMAIN st.records)} : n > st.remote}

\* The swarm is polled and Kademlia reports an event that answers no request
\* of this program.  A PutRecord request of a remote peer is reported after
\* its record was stored; the event stands for the last of a run of them.
HandleUnsolicited(ev) ==
    LET rend == InjectKademliaEvent(ev)
    IN  /\ last' = Step("kademlia_event", None, Some(ev), rend.out, <<>>, None)
        /\ AfterRendering(rend)
        /\ IF ev.type = "InboundRequest" /\ ev.request = "PutRecord"
           THEN \E n \in RemoteFill(kademlia[1].store) \cup {kademlia[1].store.remote} :
                   kademlia' = Some([kademlia[1] EXCEPT !.store.remote = n])
           ELSE UNCHANGED kademlia
        /\ UNCHANGED <<argv, store, listening, history>>

Unsolicited ==
    /\ pc = "loop"
    /\ \E ev \in UnsolicitedEvents : HandleUnsolicited(ev)
    /\ UNCHANGED ready

\* The swarm is polled and mDNS reports an event.
Discovery ==
    /\ pc = "loop"
    /\ \E ev \in MdnsEvents :
         LET r == InjectMdnsEvent(kademlia[1], ev)
         IN  /\ kademlia' = Some(r.kad)
             /\ last' = Step("mdns_event", None, Some(ev), r.out, r.calls, None)
    /\ UNCHANGED <<ready, argv, pc, exit, store, listening, history>>

\* event = swarm.select_next_some() => match event { NewListenAddr .. , _ }
SwarmEventLines(e) ==
    IF e = "NewListenAddr"
    THEN <<Line("stdout", "Listening on {:?}", <<Debug("address")>>)>>
    ELSE <<>>

SwarmEvent ==
    /\ pc = "loop"
    /\ \E e \in SwarmEvents :
         /\ last' = Step("swarm_event", None, Some(e), SwarmEventLines(e), <<>>, None)
         /\ listening' = (listening \/ e = "NewListenAddr")
    /\ UNCHANGED <<ready, argv, pc, exit, store, kademlia, history>>

\* The operator interrupts the process (Ctrl-c).
Interrupt ==
    /\ pc # "exit"
    /\ pc' = "exit"
    /\ exit' = "interrupt"
    /\ last' = Step("interrupt", None, None, <<>>, <<>>, None)
    /\ UNCHANGED <<ready, argv, store, kademlia, listening, history>>

Next ==
    \/ Transport
    \/ NewStore
    \/ Seed
    \/ NewKademlia
    \/ NewMdns
    \/ ListenOn
    \/ StdinLine
    \/ StdinError
    \/ QueryCompleted
    \/ Unsolicited
    \/ Discovery
    \/ SwarmEvent
    \/ Interrupt

Spec == Init /\ [][Next]_vars

\* ------------------------------------- the loop, arrival told from handling

\* The lines that arrive on stdin: GET k, GET without its key, and FOO.
ReadyLines ==
    {Typed("GET", S_GET, <<T_k>>), Typed("GET", S_GET, <<>>),
     Typed("", <<70, 79, 79>>, <<>>)}

\* The events that arrive at the swarm.
ReadyEvents ==
    {ev \in UnsolicitedEvents : ev.type \in {"RoutingUpdated", "InboundRequest"}}

\* The operator types a line: stdin.select_next_some() is ready.
LineReady ==
    /\ pc = "loop"
    /\ ready.line = None
    /\ \E t \in ReadyLines :
         /\ handle_input_line(kademlia[1], t.line).kad.next_id <= MaxQueries + 1
         /\ ready' = [ready EXCEPT !.line = Some(t)]
    /\ UNCHANGED <<argv, pc, exit, store, kademlia, listening, last, history>>

\* The network has something for the swarm: swarm.select_next_some() has
\* work to do.
EventReady ==
    /\ pc = "loop"
    /\ ready.event = None
    /\ \E ev \in ReadyEvents : ready' = [ready EXCEPT !.event = Some(ev)]
    /\ UNCHANGED <<argv, pc, exit, store, kademlia, listening, last, history>>

\* select! takes the stdin branch.
SelectLine ==
    /\ pc = "loop"
    /\ ready.line # None
    /\ HandleLine(ready.line[1])
    /\ ready' = [ready EXCEPT !.line = None]

\* select! takes the swarm branch.
SelectEvent ==
    /\ pc = "loop"
    /\ ready.event # None
    /\ HandleUnsolicited(ready.event[1])
    /\ ready' = [ready EXCEPT !.event = None]

FairNext ==
    \/ Transport
    \/ NewStore
    \/ Seed
    \/ NewKademlia
    \/ NewMdns
    \/ ListenOn
    \/ LineReady
    \/ EventReady
    \/ SelectLine
    \/ SelectEvent

\* futures::select! polls its branches in a pseudo-random order each time
\* round the loop, so a branch that stays ready is taken in the end.
FairSpec ==
    Init /\ [][FairNext]_vars /\ WF_vars(SelectLine) /\ WF_vars(SelectEvent)

\* ------------------------------------------------------------ the claims

\* The arguments a verb requires.
Required(kind) == IF kind = "PUT" THEN 2 ELSE 1

\* The latest step handled a line of the operator.
LineHandled == last.op = "line"

TypedLast == last.typed[1]

\* A line with a verb and fewer tokens after it than the verb requires.
MissingArguments(t) == t.kind \in Kinds /\ Len(t.args) < Required(t.kind)

StderrLines(out) == {i \in 1..Len(out) : out[i].fd = "stderr"}

\* C1: after a line with a recognized verb and fewer arguments than the verb
\* requires is handled, the session is still in its event loop.
C1_MissingArgumentNotFatal ==
    (LineHandled /\ MissingArguments(TypedLast)) => (pc = "loop" /\ exit = "")

\* C2: the phases follow one another as Starting, Listening, Running,
\* Terminated, and from Listening or Running the session is Terminated only
\* by an interruption.
C2_Lifecycle ==
    [][/\ Phase = "Starting" => Phase' \in {"Starting", "Listening", "Terminated"}
       /\ Phase = "Listening" => Phase' \in {"Listening", "Running", "Terminated"}
       /\ Phase = "Running" => Phase' \in {"Running", "Terminated"}
       /\ Phase = "Terminated" => Phase' = "Terminated"
       /\ (Phase \in {"Listening", "Running"} /\ Phase' = "Terminated")
              => exit' = "interrupt"]_vars

\* C3: handling a line whose first token is, in any letter case, none of the
\* four verbs prints exactly one line, on stderr, makes no request of
\* Kademlia and leaves the session in its loop.
C3_Unrecognized ==
    [][(last'.op = "line" /\ last'.typed[1].kind = "")
          => /\ Len(last'.out) = 1
             /\ last'.out[1].fd = "stderr"
             /\ last'.calls = <<>>
             /\ kademlia' = kademlia
             /\ pc' = "loop" /\ exit' = ""]_vars

C3_Witness == LineHandled /\ TypedLast.kind = "" /\ TypedLast.verb # <<>>

\* C4: handling GET or GET_PROVIDERS with no key, or PUT with no key or with
\* a key and no value, prints a line on stderr and makes no request of
\* Kademlia: the queries and the store are as they were.
C4_MissingArgumentNoRequest ==
    [][(last'.op = "line" /\ MissingArguments(last'.typed[1])
            /\ last'.typed[1].kind # "PUT_PROVIDER")
          => /\ StderrLines(last'.out) # {}
             /\ last'.calls = <<>>
             /\ kademlia' = kademlia]_vars

C4_Witness ==
    /\ LineHandled /\ MissingArguments(TypedLast)
    /\ TypedLast.kind = "PUT" /\ Len(TypedLast.args) = 1

\* The latest step rendered a Kademlia event.
EventRendered == last.op = "kademlia_event"

ResultLast == last.event[1].result

GotRecordLine(line, k, v) ==
    /\ line.fd = "stdout"
    /\ line.fmt = "Got record {:?} {:?} from peer {:?}"
    /\ line.args[1] = DebugStr(k)
    /\ line.args[2] = DebugStr(v)

\* C5: when a well-formed PUT k v was typed, its success was reported, and
\* GET k was typed after that (no other PUT of k in between), the completion
\* of that GET is a success whose rendering has a line with k and v.
C5_RoundTrip ==
    (EventRendered /\ last.expect # None) =>
        /\ ResultLast.kind = "GetRecord"
        /\ ResultLast.ok
        /\ \E i \in 1..Len(last.out) :
              GotRecordLine(last.out[i], last.expect[1][1], last.expect[1][2])

C5_Witness ==
    EventRendered /\ last.expect # None /\ last.expect[1] = <<T_k, T_w>>

\* The latest step handled a PUT line whose record the store rejects.
PutRejected ==
    /\ LineHandled
    /\ last.calls # <<>>
    /\ last.calls[1].fn = "put_record"
    /\ StorePut(kademlia[1].store, last.calls[1].args[1]).res # "Ok"

\* C6: after a PUT whose record the store rejects, the session is still in
\* its event loop.
C6_IssuanceFailureNotFatal == PutRejected => (pc = "loop" /\ exit = "")

\* C7: after any Kademlia event is handled, whatever bytes its keys and
\* values are, the session is still in its event loop.
C7_EventHandlingTotal == EventRendered => (pc = "loop" /\ exit = "")

\* The failure of a lookup, a write, a provider advertisement or a provider
\* lookup.
QueryFailure(ev) ==
    /\ ev.type = "OutboundQueryCompleted"
    /\ ~ev.result.ok
    /\ ev.result.kind \in {"GetRecord", "PutRecord", "StartProviding", "GetProviders"}

\* C8: handling the failure of a query prints exactly one line, on stderr,
\* starts no query (none is added, the next id is as it was), leaves the
\* store as it was, and leaves the session in its loop.
C8_QueryFailureReported ==
    [][(last'.op = "kademlia_event" /\ QueryFailure(last'.event[1]))
          => /\ Len(last'.out) = 1
             /\ last'.out[1].fd = "stderr"
             /\ last'.calls = <<>>
             /\ kademlia'[1].queries \subseteq kademlia[1].queries
             /\ kademlia'[1].next_id = kademlia[1].next_id
             /\ kademlia'[1].store = kademlia[1].store
             /\ pc' = "loop" /\ exit' = ""]_vars

C8_Witness ==
    EventRendered /\ QueryFailure(last.event[1]) /\ ResultLast.kind = "GetRecord"

AddAddressCalls(calls) == {i \in 1..Len(calls) : calls[i].fn = "add_address"}

ServerMode == argv # <<"client">>

\* The loop is about to start: no line and no event was handled yet.
LoopNotStarted == pc = "loop" /\ last.op = "listen_on"

SeedRecord == Record(AsBytes(S_andrew), AsBytes(S_55), None, None)

\* C10: in server mode, from the construction of Kademlia until the loop
\* handles its first line or event, the store holds the seeded record and
\* nothing else, and a lookup of the seeded key finds it.
C10_SeededBeforeLoop ==
    (ServerMode /\ kademlia # None /\ (pc \in {"mdns", "listen"} \/ LoopNotStarted)) =>
        /\ DOMAIN kademlia[1].store.records = {SeedRecord.key}
        /\ kademlia[1].store.records[SeedRecord.key] = SeedRecord
        /\ kademlia[1].store.remote = 0
        /\ StoreGet(kademlia[1].store, SeedRecord.key) = Some(SeedRecord)

C10_Witness == ServerMode /\ LoopNotStarted


\* C11: when the loop starts, the store of a process started with the
\* argument `client` holds no record, and the store of a process started
\* with another argument, or none, holds the seeded record and no other.
C11_ModeSelectsSeeding ==
    LoopNotStarted =>
        IF argv = <<"client">>
        THEN DOMAIN kademlia[1].store.records = {}
        ELSE DOMAIN kademlia[1].store.records = {SeedRecord.key}

\* C12: a process in server mode has started no query for the operator: no
\* line was handled that made a request of Kademlia.
C12_ServerAcceptsNoCommand ==
    (ServerMode /\ kademlia # None) =>
        /\ kademlia[1].next_id = 1
        /\ ~(LineHandled /\ last.calls # <<>>)

\* A line of a verb and exactly the tokens it requires, none of them empty.
WellFormed(t) ==
    /\ t.kind \in Kinds
    /\ Len(t.args) = Required(t.kind)
    /\ \A i \in 1..Len(t.args) : t.args[i] # <<>>

\* The request a well-formed line asks for.
RequestOf(t) ==
    IF t.kind = "GET" THEN Call("get_record", <<AsBytes(t.args[1]), QuorumOne>>)
    ELSE IF t.kind = "GET_PROVIDERS" THEN Call("get_providers", <<AsBytes(t.args[1])>>)
    ELSE IF t.kind = "PUT_PROVIDER" THEN Call("start_providing", <<AsBytes(t.args[1])>>)
    ELSE Call("put_record",
              <<Record(AsBytes(t.args[1]), AsBytes(t.args[2]), None, None), QuorumOne>>)

QueryKindOf(kind) ==
    IF kind = "GET" THEN "GetRecord"
    ELSE IF kind = "GET_PROVIDERS" THEN "GetProviders"
    ELSE IF kind = "PUT_PROVIDER" THEN "StartProviding"
    ELSE "PutRecord"

\* C13: handling a well-formed line, its verb in either letter case, makes
\* exactly the one request of Kademlia the line asks for (for PUT: a record of
\* the key and value, no publisher, no expiry, quorum one); the queries in
\* progress gain one query of that kind and key, with the next id, unless the
\* store rejected the record, and lose none.
C13_OneRequestPerLine ==
    [][(last'.op = "line" /\ WellFormed(last'.typed[1])) =>
          LET t == last'.typed[1]
              new == kademlia'[1].queries \ kademlia[1].queries
          IN  /\ last'.calls = <<RequestOf(t)>>
              /\ kademlia[1].queries \subseteq kademlia'[1].queries
              /\ \A q \in new : /\ q.id = kademlia[1].next_id
                                /\ q.kind = QueryKindOf(t.kind)
                                /\ q.key = AsBytes(t.args[1])
                                /\ t.kind = "PUT" => q.value = AsBytes(t.args[2])
              /\ Cardinality(new) = IF exit' = "panic" THEN 0 ELSE 1]_vars

C13_Witness ==
    /\ LineHandled /\ WellFormed(TypedLast)
    /\ TypedLast.kind = "PUT_PROVIDER"
    /\ TypedLast.verb = ToAsciiLower(S_PUT_PROVIDER)
    /\ pc = "loop"

\* White space: the space and the tab.
IsWhitespace(c) == c \in {SPACE, 9}

\* The tokens of a line split on runs of white space: `cur` is the token
\* being read from position i on.
RECURSIVE WhitespaceTokens(_, _, _)
WhitespaceTokens(line, i, cur) ==
    IF i > Len(line) THEN (IF cur = <<>> THEN <<>> ELSE <<cur>>)
    ELSE IF IsWhitespace(line[i])
    THEN (IF cur = <<>> THEN <<>> ELSE <<cur>>) \o WhitespaceTokens(line, i + 1, <<>>)
    ELSE WhitespaceTokens(line, i + 1, Append(cur, line[i]))

\* The line of the same tokens with one space between them.
SingleSpaced(line) ==
    LET tokens == WhitespaceTokens(line, 1, <<>>)
    IN  IF tokens = <<>> THEN <<>> ELSE JoinSpace(tokens)

\* The key, and the value if any, of a request.
TextsOf(call) ==
    IF call.fn = "put_record" THEN {call.args[1].key, call.args[1].value}
    ELSE IF call.fn \in {"get_record", "get_providers", "start_providing"}
    THEN {call.args[1]}
    ELSE {}

\* C14: handling a line makes the requests that handling the line of the same
\* tokens with single spaces between them makes, and no request has an empty
\* key or an empty value.
C14_SplitsOnWhitespace ==
    [][last'.op = "line" =>
          /\ last'.calls =
                 handle_input_line(kademlia[1], SingleSpaced(last'.typed[1].line)).calls
          /\ \A i \in 1..Len(last'.calls) : <<>> \notin TextsOf(last'.calls[i])]_vars


\* The store holds, as published by this peer, the record line t writes: a
\* line PUT of that key and value was handled before.
PutBefore(kad, t) ==
    LET held == StoreGet(kad.store, AsBytes(t.args[1]))
    IN  /\ held # None
        /\ held[1].value = AsBytes(t.args[2])
        /\ held[1].publisher = Some(kad.local)

\* The queries in progress that write key k with value v.
WritesOf(kad, k, v) ==
    {q \in kad.queries : q.kind = "PutRecord" /\ q.key = AsBytes(k) /\ q.value = AsBytes(v)}

\* C15: handling PUT k v when PUT k v was handled before, its write in
\* progress or not, makes the put_record request again and starts a new write
\* with a new id next to every query in progress; the store is as it was and
\* the session is in its loop.
C15_SecondPutIsIndependent ==
    [][(/\ last'.op = "line"
        /\ WellFormed(last'.typed[1])
        /\ last'.typed[1].kind = "PUT"
        /\ PutBefore(kademlia[1], last'.typed[1])) =>
          LET t == last'.typed[1]
          IN  /\ last'.calls = <<RequestOf(t)>>
              /\ kademlia'[1].queries =
                     kademlia[1].queries
                     \cup {Query(kademlia[1].next_id, "PutRecord", AsBytes(t.args[1]),
                                 AsBytes(t.args[2]), <<>>)}
              /\ kademlia'[1].next_id = kademlia[1].next_id + 1
              /\ Cardinality(kademlia'[1].queries) = Cardinality(kademlia[1].queries) + 1
              /\ kademlia'[1].store = kademlia[1].store
              /\ pc' = "loop" /\ exit' = ""]_vars

C15_Witness ==
    /\ LineHandled /\ WellFormed(TypedLast) /\ TypedLast.kind = "PUT"
    /\ Cardinality(WritesOf(kademlia[1], TypedLast.args[1], TypedLast.args[2])) = 2

\* A PUT line of a key, a value and more tokens.
PutWithMoreTokens(t) ==
    t.kind = "PUT" /\ Len(t.args) > 2 /\ t.args[1] # <<>> /\ t.args[2] # <<>>

\* C16: handling PUT k v1 v2 .. makes one request, put_record of the record
\* of k and v1, and prints nothing, unless the store rejects the record.
C16_ValueEndsAtFirstSpace ==
    [][(last'.op = "line" /\ PutWithMoreTokens(last'.typed[1])) =>
          LET t == last'.typed[1]
          IN  /\ last'.calls =
                     <<Call("put_record",
                            <<Record(AsBytes(t.args[1]), AsBytes(t.args[2]), None, None),
                              QuorumOne>>)>>
              /\ \/ last'.out = <<>> /\ pc' = "loop" /\ exit' = ""
                 \/ exit' = "panic" /\ StorePut(kademlia[1].store,
                                                last'.calls[1].args[1]).res # "Ok"]_vars

C16_Witness ==
    /\ LineHandled /\ PutWithMoreTokens(TypedLast) /\ pc = "loop"
    /\ WritesOf(kademlia[1], TypedLast.args[1], TypedLast.args[2]) # {}

\* The line GET k.
LineGetK == JoinSpace(<<S_GET, T_k>>)

\* The latest step rendered the completion of a query of this program.
CompletionRendered(l) ==
    /\ l.op = "kademlia_event"
    /\ l.event[1].type = "OutboundQueryCompleted"
    /\ l.event[1].id # 0

\* C17: in the loop, whatever queries are in progress, the line GET k is
\* handled at once and starts a query next to them; the completion of any
\* query in progress is rendered from the event alone and the query is in
\* progress no more, so that it is rendered once; ids are never used again.
C17_NeverWaitsForACompletion ==
    [][(pc = "loop") =>
          /\ LET o == handle_input_line(kademlia[1], LineGetK)
             IN  /\ o.res = "Ok"
                 /\ kademlia[1].queries \subseteq o.kad.queries
                 /\ Cardinality(o.kad.queries) = Cardinality(kademlia[1].queries) + 1
          /\ CompletionRendered(last') =>
                /\ \E q \in kademlia[1].queries :
                      /\ q.id = last'.event[1].id
                      /\ kademlia'[1].queries = kademlia[1].queries \ {q}
                /\ last'.out = InjectKademliaEvent(last'.event[1]).out
          /\ \A q \in kademlia'[1].queries \ kademlia[1].queries :
                q.id = kademlia[1].next_id /\ kademlia'[1].next_id > q.id
          /\ kademlia'[1].next_id >= kademlia[1].next_id]_vars

\* The completion of the second query is rendered while the first, started
\* before it, is in progress.
C17_Witness ==
    /\ CompletionRendered(last)
    /\ last.event[1].id = 2
    /\ \E q \in kademlia[1].queries : q.id = 1

\* C20: handling the empty line prints the one line of the `_` arm on
\* stderr (not the error "Could not parse input string"), makes no request of
\* Kademlia and leaves the session in its loop.
C20_EmptyLine ==
    [][(last'.op = "line" /\ last'.typed[1].line = <<>>) =>
          /\ last'.out = <<Line("stderr",
                               "expected GET, GET_PROVIDERS, PUT or PUT_PROVIDER", <<>>)>>
          /\ last'.calls = <<>>
          /\ kademlia' = kademlia
          /\ pc' = "loop" /\ exit' = ""]_vars

C20_Witness == LineHandled /\ TypedLast.line = <<>> /\ pc = "loop"


\* C18: a line that is ready is handled in the end, and an event that is
\* ready is handled in the end, whatever the other stream holds ready.
C18_NeitherStarves ==
    /\ (ready.line # None) ~> (ready.line = None)
    /\ (ready.event # None) ~> (ready.event = None)

====
